---- MODULE Spec2Model ----
(***************************************************************************)
(* The chunked translation pipeline of app.py (translate_text), the text   *)
(* extraction function (extract_text) and the two UI flows that call       *)
(* translate_text (tab1: document translation, tab2: text translation).    *)
(*                                                                         *)
(* A Python str is a sequence of one-character strings.  The external      *)
(* collaborators (GoogleTranslator.translate, PyPDF2, python-docx,         *)
(* pytesseract, the file system) are nondeterministic: each call either    *)
(* returns a value drawn from a small set or raises.                       *)
(***************************************************************************)
EXTENDS Integers, Sequences, FiniteSets, TLC

(* ------------------------------ bounds --------------------------------- *)
\* an input text of the pipeline is a concatenation of at most MaxRuns runs
MaxRuns == 3
\* a PDF has at most MaxPages pages, a DOCX at most MaxPages paragraphs
MaxPages == 2

(* ------------------------------- state --------------------------------- *)
VARIABLES
    pc,          \* control position
    mode,        \* who called translate_text: "api", "doc" (tab1), "text" (tab2)
    text,        \* translate_text: the argument
    constructed, \* translate_text: a GoogleTranslator has been constructed
    chunks,      \* translate_text: the list chunks
    idx,         \* translate_text: 1-based position of the for loop in chunks
    translated,  \* translate_text: the list translated
    calls,       \* the calls translator.translate has received, in order
    exc,         \* translate_text: str(e) of the caught exception
    result,      \* translate_text: the returned value
    file_ext,    \* extract_text: the lower-cased extension of the upload
    use_ocr,     \* extract_text: the argument use_ocr
    disk,        \* the temporary files that exist on disk
    tmp_paths_to_cleanup, \* extract_text: the list of that name
    extracted_text,       \* extract_text: the local of that name
    extracted,   \* tab1: the value extract_text returned
    ex_outcome,  \* which return statement of extract_text produced extracted
    shown        \* what the second column of the page shows

appVars == <<file_ext, use_ocr, disk, tmp_paths_to_cleanup, extracted_text,
             extracted, ex_outcome, shown>>

vars == <<pc, mode, text, constructed, chunks, idx, translated, calls, exc,
          result, appVars>>

(* --------------------------- string literals --------------------------- *)
EmptyInputMsg ==
    <<"P", "l", "e", "a", "s", "e", " ", "e", "n", "t", "e", "r", " ", "s", "o", "m", "e", " ", "t", "e", "x", "t", " ", "t", "o", " ", "t", "r", "a", "n", "s", "l", "a", "t", "e", ".">>
TranslationErrorPrefix ==
    <<"T", "r", "a", "n", "s", "l", "a", "t", "i", "o", "n", " ", "e", "r", "r", "o", "r", ":", " ">>
UnsupportedPrefix ==
    <<"U", "n", "s", "u", "p", "p", "o", "r", "t", "e", "d", " ", "f", "i", "l", "e", " ", "t", "y", "p", "e", ":", " ">>
NoTextMsg ==
    <<"N", "o", " ", "t", "e", "x", "t", " ", "f", "o", "u", "n", "d", " ", "i", "n", " ", "f", "i", "l", "e", ".">>
ExtractionErrorPrefix ==
    <<"E", "x", "t", "r", "a", "c", "t", "i", "o", "n", " ", "E", "r", "r", "o", "r", ":", " ">>
StrError ==
    <<"E", "r", "r", "o", "r">>
StrNoText ==
    <<"N", "o", " ", "t", "e", "x", "t">>

(* ------------------------- Python str operations ----------------------- *)
\* the characters str.strip() removes
Whitespace == {" ", "\n", "\t"}

\* c * n
Rep(c, n) == [i \in 1..n |-> c]

\* not s.strip(): every character is whitespace (true of the empty string)
AllWhitespace(s) == ~ \E i \in 1..Len(s) : s[i] \notin Whitespace

\* s.strip()
Strip(s) ==
    IF AllWhitespace(s) THEN <<>>
    ELSE LET first == CHOOSE i \in 1..Len(s) :
                          /\ s[i] \notin Whitespace
                          /\ \A j \in 1..(i - 1) : s[j] \in Whitespace
             last  == CHOOSE i \in 1..Len(s) :
                          /\ s[i] \notin Whitespace
                          /\ \A j \in (i + 1)..Len(s) : s[j] \in Whitespace
         IN  SubSeq(s, first, last)

\* s.startswith(p)
StartsWith(s, p) == /\ Len(s) >= Len(p)
                    /\ ~ \E i \in 1..Len(p) : s[i] # p[i]

\* sep.join(xs)
RECURSIVE Join(_, _)
Join(sep, xs) ==
    IF xs = <<>> THEN <<>>
    ELSE IF Len(xs) = 1 THEN xs[1]
    ELSE xs[1] \o sep \o Join(sep, Tail(xs))

\* "".join(xs)
RECURSIVE Concat(_)
Concat(xs) == IF xs = <<>> THEN <<>> ELSE xs[1] \o Concat(Tail(xs))

(* ----------------------------- translate_text -------------------------- *)
max_length == 4500

\* a guard that forgets the strip
BlankEmptyOnly(t) == Len(t) = 0

\* line 57: not text or not text.strip()
Blank(t) == Len(t) = 0 \/ AllWhitespace(t)

\* number of values of range(0, len(text), max_length)
NumChunks(t) == (Len(t) + max_length - 1) \div max_length

\* a slicing that loses the last, shorter chunk
ChunksDropTail(t) ==
    [k \in 1..(Len(t) \div max_length) |->
        SubSeq(t, (k - 1) * max_length + 1, k * max_length)]

\* line 67: [text[i:i+max_length] for i in range(0, len(text), max_length)]
Chunks(t) ==
    [k \in 1..NumChunks(t) |->
        SubSeq(t, (k - 1) * max_length + 1,
                  IF k * max_length < Len(t) THEN k * max_length ELSE Len(t))]

\* a join on newlines
NewlineSeparator == <<"\n">>

\* line 74: the separator of the join
JoinSeparator == <<" ">>

\* an error result that carries the translations made so far
TranslationErrorPartial(e) ==
    Join(JoinSeparator, Append(translated, TranslationErrorPrefix \o e))

\* line 77: f"Translation error: {str(e)}"
TranslationError(e) == TranslationErrorPrefix \o e

(* --------------------------- external translator ----------------------- *)
\* what translator.translate may return
Responses == {<<"X">>, <<"Y">>}
\* str(e) of what translator.translate may raise
ExcMsgs == {<<"t", "i", "m", "e", "o", "u", "t">>}
Outcomes == [ok : {TRUE}, ret : Responses] \cup [ok : {FALSE}, ret : ExcMsgs]

(* ------------------------------- inputs -------------------------------- *)
Alphabet == {"a", " "}
RunLens == {1, max_length - 1, max_length}
RunSeqs == UNION {[1..n -> Alphabet \X RunLens] : n \in 0..MaxRuns}
RECURSIVE TextOf(_)
TextOf(runs) ==
    IF runs = <<>> THEN <<>>
    ELSE Rep(runs[1][1], runs[1][2]) \o TextOf(Tail(runs))
Texts == {TextOf(r) : r \in RunSeqs}

\* the state of translate_text's frame at its entry
EnterTranslate(t, m) ==
    /\ pc' = "Idle"
    /\ mode' = m
    /\ text' = t
    /\ constructed' = FALSE
    /\ chunks' = <<>>
    /\ idx' = 0
    /\ translated' = <<>>
    /\ calls' = <<>>
    /\ exc' = <<>>
    /\ result' = <<>>

AppIdle ==
    /\ file_ext = ""
    /\ use_ocr = FALSE
    /\ disk = {}
    /\ tmp_paths_to_cleanup = <<>>
    /\ extracted_text = <<>>
    /\ extracted = <<>>
    /\ ex_outcome = "none"
    /\ shown = "nothing"

\* translate_text called on its own: the argument is any text
Init ==
    /\ pc = "Idle"
    /\ mode = "api"
    /\ text \in Texts
    /\ constructed = FALSE
    /\ chunks = <<>>
    /\ idx = 0
    /\ translated = <<>>
    /\ calls = <<>>
    /\ exc = <<>>
    /\ result = <<>>
    /\ AppIdle

\* lines 57-58: the empty-input guard
tt_EmptyInput ==
    /\ pc = "Idle"
    /\ Blank(text)
    /\ result' = EmptyInputMsg
    /\ pc' = "EmptyInput"
    /\ UNCHANGED <<mode, text, constructed, chunks, idx, translated, calls, exc, appVars>>

\* lines 57, 60-62: the guard passes, the translator is constructed (both call
\* sites pass source_lang='en' and target_lang='si', which the constructor
\* accepts)
tt_Construct ==
    /\ pc = "Idle"
    /\ ~Blank(text)
    /\ constructed' = TRUE
    /\ pc' = "Dispatch"
    /\ UNCHANGED <<mode, text, chunks, idx, translated, calls, exc, result, appVars>>

\* a single call that is handed the stripped text
tt_SingleStripped ==
    /\ pc = "Dispatch"
    /\ Len(text) <= max_length
    /\ \E o \in Outcomes :
          /\ calls' = Append(calls, [seg |-> 0, arg |-> Strip(text), ok |-> o.ok, ret |-> o.ret])
          /\ IF o.ok
             THEN /\ result' = o.ret
                  /\ pc' = "Done"
                  /\ exc' = exc
             ELSE /\ exc' = o.ret
                  /\ result' = TranslationError(o.ret)
                  /\ pc' = "Failed"
    /\ UNCHANGED <<mode, text, constructed, chunks, idx, translated, appVars>>

\* lines 64-65 (and 76-77): a short text is translated in one call
tt_Single ==
    /\ pc = "Dispatch"
    /\ Len(text) <= max_length
    /\ \E o \in Outcomes :
          /\ calls' = Append(calls, [seg |-> 0, arg |-> text, ok |-> o.ok, ret |-> o.ret])
          /\ IF o.ok
             THEN /\ result' = o.ret
                  /\ pc' = "Done"
                  /\ exc' = exc
             ELSE /\ exc' = o.ret
                  /\ result' = TranslationError(o.ret)
                  /\ pc' = "Failed"
    /\ UNCHANGED <<mode, text, constructed, chunks, idx, translated, appVars>>

\* lines 64, 67-68: a long text is cut into chunks
tt_Chunk ==
    /\ pc = "Dispatch"
    /\ Len(text) > max_length
    /\ chunks' = Chunks(text)
    /\ translated' = <<>>
    /\ idx' = 1
    /\ pc' = "Translating"
    /\ UNCHANGED <<mode, text, constructed, calls, exc, result, appVars>>

\* lines 70-71: one iteration of the loop on a blank chunk
tt_Skip ==
    /\ pc = "Translating"
    /\ idx <= Len(chunks)
    /\ AllWhitespace(chunks[idx])
    /\ idx' = idx + 1
    /\ UNCHANGED <<pc, mode, text, constructed, chunks, translated, calls, exc, result, appVars>>

\* a loop that puts each translation in front of the earlier ones
tt_TranslatePrepend ==
    /\ pc = "Translating"
    /\ idx <= Len(chunks)
    /\ ~AllWhitespace(chunks[idx])
    /\ \E o \in Outcomes :
          /\ calls' = Append(calls, [seg |-> idx, arg |-> chunks[idx], ok |-> o.ok, ret |-> o.ret])
          /\ IF o.ok
             THEN /\ translated' = <<o.ret>> \o translated
                  /\ idx' = idx + 1
                  /\ UNCHANGED <<pc, exc, result>>
             ELSE /\ exc' = o.ret
                  /\ result' = TranslationError(o.ret)
                  /\ pc' = "Failed"
                  /\ UNCHANGED <<translated, idx>>
    /\ UNCHANGED <<mode, text, constructed, chunks, appVars>>

\* a loop that catches the failure of a call and goes on with the next chunk
tt_TranslateBestEffort ==
    /\ pc = "Translating"
    /\ idx <= Len(chunks)
    /\ ~AllWhitespace(chunks[idx])
    /\ \E o \in Outcomes :
          /\ calls' = Append(calls, [seg |-> idx, arg |-> chunks[idx], ok |-> o.ok, ret |-> o.ret])
          /\ IF o.ok
             THEN /\ translated' = Append(translated, o.ret)
                  /\ UNCHANGED exc
             ELSE /\ exc' = o.ret
                  /\ UNCHANGED translated
          /\ idx' = idx + 1
          /\ UNCHANGED <<pc, result>>
    /\ UNCHANGED <<mode, text, constructed, chunks, appVars>>

\* lines 70-72 (and 76-77): one iteration of the loop on a non-blank chunk
tt_Translate ==
    /\ pc = "Translating"
    /\ idx <= Len(chunks)
    /\ ~AllWhitespace(chunks[idx])
    /\ \E o \in Outcomes :
          /\ calls' = Append(calls, [seg |-> idx, arg |-> chunks[idx], ok |-> o.ok, ret |-> o.ret])
          /\ IF o.ok
             THEN /\ translated' = Append(translated, o.ret)
                  /\ idx' = idx + 1
                  /\ UNCHANGED <<pc, exc, result>>
             ELSE /\ exc' = o.ret
                  /\ result' = TranslationError(o.ret)
                  /\ pc' = "Failed"
                  /\ UNCHANGED <<translated, idx>>
    /\ UNCHANGED <<mode, text, constructed, chunks, appVars>>

\* line 74: the loop is over, the translations are joined
tt_Join ==
    /\ pc = "Translating"
    /\ idx > Len(chunks)
    /\ result' = Join(JoinSeparator, translated)
    /\ pc' = "Done"
    /\ UNCHANGED <<mode, text, constructed, chunks, idx, translated, calls, exc, appVars>>

TranslateText ==
    \/ tt_EmptyInput
    \/ tt_Construct
    \/ tt_Single
    \/ tt_Chunk
    \/ tt_Skip
    \/ tt_Translate
    \/ tt_Join

Next == TranslateText

Spec == Init /\ [][Next]_vars

(* ------------------------------ extract_text --------------------------- *)
\* line 219: the extensions the tab1 uploader accepts
UploaderTypes == {".pdf", ".docx", ".txt", ".jpg", ".jpeg", ".png", ".bmp", ".tiff"}
\* line 121
ImageTypes == {".jpg", ".jpeg", ".png", ".bmp", ".tiff"}

\* the name NamedTemporaryFile gives the file it creates
TmpName(ext) == "tmp" \o ext

\* str(e) of what a library call of extract_text may raise
ExtractExcMsgs == {<<"b", "a", "d">>}

\* what a .txt upload decodes to, and what OCR of an image returns
AppTexts ==
    { <<>>,
      <<" ">>,
      <<"H", "i">>,
      <<" ", "H", "i", "\n">>,
      StrError \o <<" ", "l", "o", "g">>,
      StrNoText \o <<" ", "h", "e", "r", "e">>,
      EmptyInputMsg,
      Rep("a", 2 * max_length),
      Rep("a", max_length) \o Rep(" ", max_length) \o <<"a">> }

\* the text of one PDF page or one DOCX paragraph
PageTexts == {<<>>, <<"H", "i">>, StrError}
PageSeqs == UNION {[1..n -> PageTexts] : n \in 0..MaxPages}

\* lines 101-103: extracted_text += image_to_string(img) + "\n", per page
RECURSIVE OcrPdfText(_)
OcrPdfText(pages) ==
    IF pages = <<>> THEN <<>>
    ELSE pages[1] \o <<"\n">> \o OcrPdfText(Tail(pages))

\* lines 107-110: if page_text: extracted_text += page_text + "\n", per page
RECURSIVE PdfText(_)
PdfText(pages) ==
    IF pages = <<>> THEN <<>>
    ELSE (IF pages[1] # <<>> THEN pages[1] \o <<"\n">> ELSE <<>>)
         \o PdfText(Tail(pages))

\* line 119: "\n".join([p.text for p in doc.paragraphs])
DocxText(paragraphs) == Join(<<"\n">>, paragraphs)

\* line 126
Unsupported(ext) == UnsupportedPrefix \o <<ext>>

\* line 131
ExtractionError(e) == ExtractionErrorPrefix \o e

\* lines 130-131: an exception raised in the try block is caught
Raise(e) ==
    /\ extracted' = ExtractionError(e)
    /\ ex_outcome' = "exception"
    /\ pc' = "ex_finally"

\* lines 85-92, 112-113, 121-126: the dispatch on the extension (the uploader
\* of line 219 lets through only extensions of the first three branches)
ex_Dispatch ==
    /\ pc = "ex_dispatch"
    /\ CASE file_ext = ".txt" ->
              /\ extracted_text' \in AppTexts
              /\ pc' = "ex_return"
              /\ UNCHANGED <<disk, extracted, ex_outcome>>
         [] file_ext \in {".pdf", ".docx"} ->
              \/ /\ disk' = disk \cup {TmpName(file_ext)}
                 /\ pc' = "ex_copy"
                 /\ UNCHANGED <<extracted_text, extracted, ex_outcome>>
              \/ /\ \E e \in ExtractExcMsgs : Raise(e)
                 /\ UNCHANGED <<disk, extracted_text>>
         [] file_ext \in ImageTypes ->
              \/ /\ extracted_text' \in AppTexts
                 /\ pc' = "ex_return"
                 /\ UNCHANGED <<disk, extracted, ex_outcome>>
              \/ /\ \E e \in ExtractExcMsgs : Raise(e)
                 /\ UNCHANGED <<disk, extracted_text>>
         [] OTHER ->
              /\ extracted' = Unsupported(file_ext)
              /\ ex_outcome' = "unsupported"
              /\ pc' = "ex_finally"
              /\ UNCHANGED <<disk, extracted_text>>
    /\ UNCHANGED <<mode, text, constructed, chunks, idx, translated, calls, exc,
                   result, file_ext, use_ocr, tmp_paths_to_cleanup, shown>>

\* lines 93-95, 114-116: the upload is copied into the temporary file, whose
\* name is then recorded for the cleanup
ex_Copy ==
    /\ pc = "ex_copy"
    /\ \/ /\ tmp_paths_to_cleanup' = Append(tmp_paths_to_cleanup, TmpName(file_ext))
          /\ pc' = "ex_parse"
          /\ UNCHANGED <<extracted, ex_outcome>>
       \/ /\ \E e \in ExtractExcMsgs : Raise(e)
          /\ UNCHANGED tmp_paths_to_cleanup
    /\ UNCHANGED <<mode, text, constructed, chunks, idx, translated, calls, exc,
                   result, file_ext, use_ocr, disk, extracted_text, shown>>

\* lines 97-110, 118-119: the text is read out of the temporary file
ex_Parse ==
    /\ pc = "ex_parse"
    /\ \/ /\ \E pages \in PageSeqs :
                extracted_text' =
                    IF file_ext = ".docx" THEN DocxText(pages)
                    ELSE IF use_ocr THEN OcrPdfText(pages)
                    ELSE PdfText(pages)
          /\ pc' = "ex_return"
          /\ UNCHANGED <<extracted, ex_outcome>>
       \/ /\ \E e \in ExtractExcMsgs : Raise(e)
          /\ UNCHANGED extracted_text
    /\ UNCHANGED <<mode, text, constructed, chunks, idx, translated, calls, exc,
                   result, file_ext, use_ocr, disk, tmp_paths_to_cleanup, shown>>

\* line 128
ex_Return ==
    /\ pc = "ex_return"
    /\ IF Strip(extracted_text) # <<>>
       THEN /\ extracted' = Strip(extracted_text)
            /\ ex_outcome' = "ok"
       ELSE /\ extracted' = NoTextMsg
            /\ ex_outcome' = "notext"
    /\ pc' = "ex_finally"
    /\ UNCHANGED <<mode, text, constructed, chunks, idx, translated, calls, exc,
                   result, file_ext, use_ocr, disk, tmp_paths_to_cleanup,
                   extracted_text, shown>>

\* lines 132-135: the files named in tmp_paths_to_cleanup are unlinked
ex_Finally ==
    /\ pc = "ex_finally"
    /\ disk' = disk \ {tmp_paths_to_cleanup[i] : i \in 1..Len(tmp_paths_to_cleanup)}
    /\ pc' = "tab1_check"
    /\ UNCHANGED <<mode, text, constructed, chunks, idx, translated, calls, exc,
                   result, file_ext, use_ocr, tmp_paths_to_cleanup,
                   extracted_text, extracted, ex_outcome, shown>>

ExtractText == ex_Dispatch \/ ex_Copy \/ ex_Parse \/ ex_Return \/ ex_Finally

(* ------------------------------- the page ------------------------------ *)
\* line 242: not extracted.startswith("Error") and not extracted.startswith("No text")
Translatable(e) == ~StartsWith(e, StrError) /\ ~StartsWith(e, StrNoText)

\* line 291: input_text and input_text.strip() != "Please enter some text to translate."
ValidInput(t) == Len(t) > 0 /\ Strip(t) # EmptyInputMsg

\* lines 229-233: a file is uploaded and the button of tab1 is pressed
tab1_Click ==
    /\ pc = "ui"
    /\ file_ext' \in UploaderTypes
    /\ use_ocr' \in BOOLEAN
    /\ pc' = "ex_dispatch"
    /\ UNCHANGED <<mode, text, constructed, chunks, idx, translated, calls, exc,
                   result, disk, tmp_paths_to_cleanup, extracted_text, extracted,
                   ex_outcome, shown>>

\* lines 242-244, 272-274: the extracted text is translated, or refused
tab1_Check ==
    /\ pc = "tab1_check"
    /\ IF Translatable(extracted)
       THEN /\ EnterTranslate(extracted, "doc")
            /\ UNCHANGED appVars
       ELSE /\ shown' = "Translation Failed"
            /\ pc' = "ui_end"
            /\ UNCHANGED <<mode, text, constructed, chunks, idx, translated,
                           calls, exc, result, file_ext, use_ocr, disk,
                           tmp_paths_to_cleanup, extracted_text, extracted,
                           ex_outcome>>

\* lines 290-293, 320-321: the button of tab2 is pressed
tab2_Click ==
    /\ pc = "ui"
    /\ \E input_text \in AppTexts :
          IF ValidInput(input_text)
          THEN /\ EnterTranslate(input_text, "text")
               /\ UNCHANGED appVars
          ELSE /\ shown' = "warning"
               /\ pc' = "ui_end"
               /\ UNCHANGED <<mode, text, constructed, chunks, idx, translated,
                              calls, exc, result, file_ext, use_ocr, disk,
                              tmp_paths_to_cleanup, extracted_text, extracted,
                              ex_outcome>>

\* lines 246-248, 295-296: the value translate_text returned is displayed
ui_Show ==
    /\ pc \in {"EmptyInput", "Done", "Failed"}
    /\ mode \in {"doc", "text"}
    /\ shown' = "translation"
    /\ pc' = "ui_end"
    /\ UNCHANGED <<mode, text, constructed, chunks, idx, translated, calls, exc,
                   result, file_ext, use_ocr, disk, tmp_paths_to_cleanup,
                   extracted_text, extracted, ex_outcome>>

\* the page before a button is pressed
InitApp ==
    /\ pc = "ui"
    /\ mode = "none"
    /\ text = <<>>
    /\ constructed = FALSE
    /\ chunks = <<>>
    /\ idx = 0
    /\ translated = <<>>
    /\ calls = <<>>
    /\ exc = <<>>
    /\ result = <<>>
    /\ AppIdle

NextApp ==
    \/ tab1_Click
    \/ tab2_Click
    \/ ExtractText
    \/ tab1_Check
    \/ TranslateText
    \/ ui_Show

SpecApp == InitApp /\ [][NextApp]_vars

(* ------------------------------ properties ----------------------------- *)
\* s contains p as a substring
Contains(s, p) ==
    \E i \in 0..(Len(s) - Len(p)) : SubSeq(s, i + 1, i + Len(p)) = p

\* translate_text has reached line 68 or gone beyond it
Chunked == Len(text) > max_length /\ pc \in {"Translating", "Done", "Failed"}

\* the values the calls of the translator returned, in call order
Returned == [i \in 1..Len(calls) |-> calls[i].ret]

\* the positions of the non-blank chunks, in increasing order
NonBlankSegs ==
    SelectSeq([k \in 1..Len(chunks) |-> k], LAMBDA k : ~AllWhitespace(chunks[k]))

\* C1: for a text longer than max_length the chunks are contiguous and
\* non-overlapping slices of the text, each at most max_length long (and none
\* empty), and their concatenation in index order is the text.
ThmC1 ==
    Chunked =>
        /\ Len(chunks) >= 2
        /\ \A k \in 1..Len(chunks) :
              /\ Len(chunks[k]) >= 1
              /\ Len(chunks[k]) <= max_length
              /\ chunks[k] = SubSeq(text, (k - 1) * max_length + 1,
                                          (k - 1) * max_length + Len(chunks[k]))
              /\ k < Len(chunks) => Len(chunks[k]) = max_length
        /\ Concat(chunks) = text

\* a text of two full chunks and a shorter third one has been cut
WitC1 ==
    /\ pc = "Translating"
    /\ Len(text) = 2 * max_length + 1
    /\ Len(chunks) = 3
    /\ Len(chunks[3]) = 1

\* C2: a non-blank text of at most max_length characters is never chunked;
\* when translate_text has returned, the translator has received exactly one
\* call, whose argument is the whole text, and a returned translation is the
\* result of translate_text as it is.
ThmC2 ==
    (Strip(text) # <<>> /\ Len(text) <= max_length) =>
        /\ pc \in {"Idle", "Dispatch", "Done", "Failed"}
        /\ chunks = <<>>
        /\ pc \in {"Idle", "Dispatch"} => calls = <<>>
        /\ pc \in {"Done", "Failed"} =>
              /\ Len(calls) = 1
              /\ calls[1].arg = text
              /\ calls[1].ok <=> pc = "Done"
              /\ pc = "Done" => result = calls[1].ret

\* a text of exactly max_length characters with whitespace at an end has been
\* translated in one call
WitC2 ==
    /\ pc = "Done"
    /\ Len(text) = max_length
    /\ text[1] = " "
    /\ Len(calls) = 1
    /\ result = calls[1].ret

\* C3: when a call of the translator fails on a multi-segment text the result
\* is the translation error built from the exception alone; no translation
\* made before the failure appears in it.
ThmC3 ==
    (pc = "Failed" /\ Len(text) > max_length) =>
        /\ calls # <<>>
        /\ ~calls[Len(calls)].ok
        /\ result = TranslationErrorPrefix \o calls[Len(calls)].ret
        /\ \A i \in 1..Len(translated) : ~Contains(result, translated[i])

\* the translator fails on the second of three segments, after a success
WitC3 ==
    /\ pc = "Failed"
    /\ Len(chunks) = 3
    /\ Len(calls) = 2
    /\ calls[1].ok
    /\ translated = <<calls[1].ret>>

\* C4: for an empty or whitespace-only text translate_text returns the
\* empty-input message; no translator is constructed and none is called.
ThmC4 ==
    Strip(text) = <<>> =>
        /\ pc \in {"Idle", "EmptyInput"}
        /\ ~constructed
        /\ calls = <<>>
        /\ pc = "EmptyInput" => result = EmptyInputMsg

\* translate_text has returned on a text of whitespace only
WitC4 ==
    /\ pc = "EmptyInput"
    /\ Len(text) > 0
    /\ result = EmptyInputMsg

\* C5: when extract_text reported a failure (an exception or an unsupported
\* type) translate_text is not invoked on the value it returned.
CexC5 ==
    ex_outcome \in {"exception", "unsupported"} =>
        /\ mode = "none"
        /\ pc \in {"ex_finally", "tab1_check", "ui_end"}
        /\ pc = "ui_end" => shown = "Translation Failed"

\* C6 as stated: the translations of a multi-segment text are joined on a
\* newline in document mode and on a single space in short-text mode.
CexC6 ==
    (pc = "Done" /\ chunks # <<>>) =>
        result = Join(IF mode = "doc" THEN <<"\n">> ELSE <<" ">>, translated)

\* C6 amended: the translations of a multi-segment text are joined with
\* exactly one separator between consecutive translations, and the separator
\* is a single space in document mode as in short-text mode; a document of
\* 9000 characters whose chunks are each translated to "X" gives "X X".
ThmC6 ==
    (pc = "Done" /\ chunks # <<>> /\ mode \in {"doc", "text"}) =>
        /\ result = Join(<<" ">>, translated)
        /\ Len(translated) = 1 => result = translated[1]
        /\ Len(translated) = 2 => result = translated[1] \o <<" ">> \o translated[2]
        /\ (/\ mode = "doc"
            /\ text = Rep("a", 9000)
            /\ \A i \in 1..Len(calls) : calls[i].ret = <<"X">>)
           => result = <<"X", " ", "X">>

\* the document of 9000 characters has been translated, each chunk to "X"
WitC6 ==
    /\ pc = "Done"
    /\ mode = "doc"
    /\ text = Rep("a", 9000)
    /\ Len(chunks) = 2
    /\ result = <<"X", " ", "X">>

\* C7: on a multi-segment text no blank chunk is sent to the translator; when
\* the join is done the calls are those of the non-blank chunks, in chunk
\* order and one each, and the result is their translations in that order.
ThmC7 ==
    /\ \A i \in 1..Len(calls) : ~AllWhitespace(calls[i].arg)
    /\ (pc = "Done" /\ chunks # <<>>) =>
          /\ Len(calls) = Len(NonBlankSegs)
          /\ \A i \in 1..Len(calls) :
                /\ calls[i].seg = NonBlankSegs[i]
                /\ calls[i].arg = chunks[NonBlankSegs[i]]
          /\ translated = Returned
          /\ result = Join(JoinSeparator, Returned)

\* a text whose second of three chunks is blank has been translated to two
\* different translations
WitC7 ==
    /\ pc = "Done"
    /\ Len(chunks) = 3
    /\ AllWhitespace(chunks[2])
    /\ Len(calls) = 2
    /\ calls[1].ret # calls[2].ret

\* the state part of C8
InvC8 ==
    /\ \A i, j \in 1..Len(calls) : i < j => calls[i].seg < calls[j].seg
    /\ \A i \in 1..Len(calls) :
          ~calls[i].ok => (i = Len(calls) /\ pc = "Failed")
    /\ pc = "Failed" => (calls # <<>> /\ ~calls[Len(calls)].ok)
    /\ pc = "Translating" => \A i \in 1..Len(calls) : calls[i].seg < idx
    /\ (chunks # <<>> /\ (pc = "Done" \/ (pc = "Translating" /\ idx > Len(chunks))))
          => \A i \in 1..Len(calls) : calls[i].ok

\* the step part of C8
StepC8 ==
    /\ Len(calls') <= Len(calls) + 1
    /\ SubSeq(calls', 1, Len(calls)) = calls
    /\ pc = "Failed" => (pc' = "Failed" /\ calls' = calls /\ result' = result)

\* C8: within one invocation the translator is called in strictly increasing
\* segment order, at most once per segment and one call per step; the first
\* failing call is the last call and leaves the pipeline in Failed, which it
\* never leaves; the join is reached only when every call succeeded.
ThmC8 == [] InvC8 /\ [] [StepC8]_vars

\* the second of three segments failed and the third was never sent
WitC8 ==
    /\ pc = "Failed"
    /\ Len(chunks) = 3
    /\ ~AllWhitespace(chunks[3])
    /\ calls[Len(calls)].seg = 2

\* C9: once extract_text has returned, no temporary file it created is left
\* on disk.
CexC9 ==
    pc \notin {"ui", "ex_dispatch", "ex_copy", "ex_parse", "ex_return", "ex_finally"}
        => disk = {}

\* C10: an extraction that succeeded with non-blank text is followed by
\* translate_text on exactly that text; the page says "Translation Failed"
\* only when the extraction failed or found no text.
CexC10 ==
    /\ shown = "Translation Failed" => ex_outcome \in {"exception", "unsupported", "notext"}
    /\ (ex_outcome = "ok" /\ pc \notin {"ex_finally", "tab1_check"}) =>
          (mode = "doc" /\ text = extracted)
====
